---- MODULE Spec2Model ----
(***************************************************************************)
(* aws-profile-selector: the configuration parser (src/src/config.rs) and  *)
(* the selection flow (src/src/main.rs, src/src/ui.rs).                    *)
(*                                                                         *)
(* Text is modelled as a sequence of one-character strings, so that trim,  *)
(* the two regular expressions and the byte-wise name comparison are       *)
(* computed on the characters as the code computes them.                   *)
(***************************************************************************)
EXTENDS Integers, Sequences, FiniteSets, TLC

VARIABLES
    \* parse_aws_config
    content,            \* the lines content.lines() yields
    line_no,            \* position of the for loop: index of the next line
    profiles,           \* Vec<Profile>
    current_profile,    \* Option<String>
    current_attributes, \* HashMap<String, String>
    pc,                 \* "idle" | "loop" | "done"
    result,             \* the value parse_aws_config returns
    \* main
    m_pc,               \* position in main
    args,               \* the clap matches
    home,               \* dirs::home_dir() is Some
    shell,              \* the SHELL environment variable
    fs_dir,             \* ~/.aws exists
    fs_current,         \* ~/.aws/current-profile: None or Some(text)
    fs_config,          \* ~/.aws/config: None or Some(lines)
    config_read,        \* read_aws_config has been called
    loaded,             \* main's `profiles`
    ans,                \* what Select::prompt returned in ProfileSelector::run
    selected_profile,   \* main's `selected_profile`: Result<Option<String>>
    stdout,             \* what was printed to standard output, in order
    stderr,             \* what was printed to standard error, in order
    exit                \* how the process ended

parser_vars == <<content, line_no, profiles, current_profile, current_attributes, pc, result>>

main_vars == <<m_pc, args, home, shell, fs_dir, fs_current, fs_config, config_read,
               loaded, ans, selected_profile, stdout, stderr, exit>>

vars == <<parser_vars, main_vars>>

----------------------------------------------------------------------------
(* Bounds *)

\* The longest input, in lines, parse_aws_config is run on.
MaxLines == 3

----------------------------------------------------------------------------
(* Option<T>: None is the empty sequence, Some(x) the one-element sequence *)

None == <<>>

Some(x) == <<x>>

IsSome(o) == o # <<>>

Unwrap(o) == o[1]

----------------------------------------------------------------------------
(* Characters and strings *)

Lower == <<"a","b","c","d","e","f","g","h","i","j","k","l","m",
           "n","o","p","q","r","s","t","u","v","w","x","y","z">>

\* The byte of a character (ASCII), for the characters the inputs use.
Byte(c) ==
    CASE c = "\t" -> 9
      [] c = " " -> 32
      [] c = "\"" -> 34
      [] c = "#" -> 35
      [] c = "$" -> 36
      [] c = "(" -> 40
      [] c = ")" -> 41
      [] c = "-" -> 45
      [] c = "." -> 46
      [] c = "/" -> 47
      [] c = "1" -> 49
      [] c = "2" -> 50
      [] c = "=" -> 61
      [] c = "A" -> 65
      [] c = "E" -> 69
      [] c = "F" -> 70
      [] c = "I" -> 73
      [] c = "L" -> 76
      [] c = "O" -> 79
      [] c = "P" -> 80
      [] c = "R" -> 82
      [] c = "S" -> 83
      [] c = "W" -> 87
      [] c = "[" -> 91
      [] c = "]" -> 93
      [] c = "_" -> 95
      [] c = "{" -> 123
      [] c = "}" -> 125
      [] OTHER -> 96 + (CHOOSE i \in 1..26 : Lower[i] = c)

\* char::is_whitespace, on the characters the inputs use.
IsSpace(c) == c \in {" ", "\t"}

\* str::trim
Trim(s) ==
    LET keep == {i \in 1..Len(s) : ~IsSpace(s[i])}
    IN  IF keep = {} THEN <<>>
        ELSE SubSeq(s, CHOOSE i \in keep : \A j \in keep : i <= j,
                       CHOOSE i \in keep : \A j \in keep : j <= i)

\* str::starts_with
StartsWith(s, p) == Len(s) >= Len(p) /\ SubSeq(s, 1, Len(p)) = p

\* str::contains
Contains(s, p) == \E i \in 0..(Len(s) - Len(p)) : SubSeq(s, i + 1, i + Len(p)) = p

\* The index of the first occurrence of character c in s at or after from, 0 if none.
Find(s, c, from) ==
    LET at == {i \in from..Len(s) : s[i] = c}
    IN  IF at = {} THEN 0 ELSE CHOOSE i \in at : \A j \in at : i <= j

\* The length of the longest run of whitespace starting at index from.
SpaceRun(s, from) ==
    LET stop == {i \in from..Len(s) : ~IsSpace(s[i])}
    IN  IF stop = {} THEN Len(s) - from + 1
        ELSE (CHOOSE i \in stop : \A j \in stop : i <= j) - from

\* Ord for str: lexicographic comparison of the bytes; a < b.
RECURSIVE StrLess(_, _)
StrLess(a, b) ==
    IF b = <<>> THEN FALSE
    ELSE IF a = <<>> THEN TRUE
    ELSE IF Byte(Head(a)) # Byte(Head(b)) THEN Byte(Head(a)) < Byte(Head(b))
    ELSE StrLess(Tail(a), Tail(b))

StrLeq(a, b) == a = b \/ StrLess(a, b)

----------------------------------------------------------------------------
(* The two regular expressions of parse_aws_config *)

LitProfile == <<"[","p","r","o","f","i","l","e">>

\* The pattern with optional whitespace and an optional name,
\* ^\s*\[profile\s*([^\]]*)\] : `[profile]` is a header too.
SectionCaptures_NameOptional(line) ==
    LET lead  == SpaceRun(line, 1)
        rest  == SubSeq(line, lead + 1, Len(line))
        close == Find(rest, "]", Len(LitProfile) + 1)
    IN  IF ~StartsWith(rest, LitProfile) \/ close = 0 THEN None
        ELSE Some(Trim(SubSeq(rest, Len(LitProfile) + 1, close - 1)))

\* section_regex  ^\s*\[profile\s+([^\]]+)\]  : no match is None, a match is
\* Some(capture 1). After the leading whitespace and the literal, \s+ takes
\* whitespace greedily and gives it back until [^\]]+ has one character before
\* the first "]".
SectionCaptures(line) ==
    LET lead  == SpaceRun(line, 1)
        rest  == SubSeq(line, lead + 1, Len(line))
        close == Find(rest, "]", Len(LitProfile) + 1)
        inner == SubSeq(rest, Len(LitProfile) + 1, close - 1)
        ws    == SpaceRun(inner, 1)
    IN  IF ~StartsWith(rest, LitProfile) \/ close = 0 THEN None
        ELSE IF ws = 0 \/ Len(inner) < 2 THEN None
        ELSE IF ws = Len(inner) THEN Some(SubSeq(inner, ws, Len(inner)))
        ELSE Some(SubSeq(inner, ws + 1, Len(inner)))

\* key_value_regex  ^\s*([^=]+?)\s*=\s*(.*?)\s*$  : no match is None, a match
\* is Some(<<capture 1, capture 2>>). The key is lazy, so it ends before the
\* whitespace that precedes the first "="; the value is lazy and followed by
\* \s*$, so it ends before the trailing whitespace.
KeyValueCaptures(line) ==
    LET eq     == Find(line, "=", 1)
        before == SubSeq(line, 1, eq - 1)
        lead   == SpaceRun(before, 1)
        keyFrom == IF lead = Len(before) THEN lead ELSE lead + 1
        keyPart == SubSeq(before, keyFrom, Len(before))
        keyKeep == {i \in 1..Len(keyPart) : ~IsSpace(keyPart[i])}
        keyTo  == IF keyKeep = {} THEN 1
                  ELSE CHOOSE i \in keyKeep : \A j \in keyKeep : j <= i
        after  == SubSeq(line, eq + 1, Len(line))
    IN  IF eq = 0 \/ before = <<>> THEN None
        ELSE Some(<<SubSeq(keyPart, 1, keyTo), Trim(after)>>)

----------------------------------------------------------------------------
(* parse_aws_config *)

\* HashMap::new
EmptyMap == [k \in {} |-> <<>>]

\* An insert that keeps the value a key already has.
MapInsert_KeepFirst(m, k, v) == [x \in DOMAIN m \cup {k} |-> IF x \in DOMAIN m THEN m[x] ELSE v]

\* HashMap::insert: the new value replaces the old one.
MapInsert(m, k, v) == [x \in DOMAIN m \cup {k} |-> IF x = k THEN v ELSE m[x]]

Profile(name, attributes) == [name |-> name, attributes |-> attributes]

\* A section header in the loop (lines 66-74): the open section, if any, is
\* pushed with the attributes collected so far and the accumulator is cleared;
\* the captured name, trimmed, becomes the open section.
OpenSection_NoClear(st, capture) ==
    [profiles |-> IF IsSome(st.current_profile)
                  THEN Append(st.profiles,
                              Profile(Unwrap(st.current_profile), st.current_attributes))
                  ELSE st.profiles,
     current_profile |-> Some(Trim(capture)),
     current_attributes |-> st.current_attributes]

OpenSection(st, capture) ==
    [profiles |-> IF IsSome(st.current_profile)
                  THEN Append(st.profiles,
                              Profile(Unwrap(st.current_profile), st.current_attributes))
                  ELSE st.profiles,
     current_profile |-> Some(Trim(capture)),
     current_attributes |-> IF IsSome(st.current_profile)
                            THEN EmptyMap
                            ELSE st.current_attributes]

\* The body of the for loop on one line: st is the triple of locals
\* (profiles, current_profile, current_attributes).
ParseLine(st, raw) ==
    LET line == Trim(raw)
        sec  == SectionCaptures(line)
        kv   == KeyValueCaptures(line)
    IN  IF line = <<>> \/ Head(line) = "#" THEN st
        ELSE IF IsSome(sec) THEN OpenSection(st, Unwrap(sec))
        ELSE IF IsSome(st.current_profile) /\ IsSome(kv) THEN
            [st EXCEPT !.current_attributes =
                MapInsert(@, Trim(Unwrap(kv)[1]), Trim(Unwrap(kv)[2]))]
        ELSE st

\* The open section is dropped at the end of the input.
FinalPush_Dropped(st) == st.profiles

\* The push after the loop.
FinalPush(st) ==
    IF IsSome(st.current_profile)
    THEN Append(st.profiles, Profile(Unwrap(st.current_profile), st.current_attributes))
    ELSE st.profiles

\* One insertion of the stable sort: p goes after every entry that is not greater.
SortedInsert(sorted, p) ==
    LET after == {i \in 1..Len(sorted) : StrLess(p.name, sorted[i].name)}
        at    == IF after = {} THEN Len(sorted) + 1
                 ELSE CHOOSE i \in after : \A j \in after : i <= j
    IN  SubSeq(sorted, 1, at - 1) \o <<p>> \o SubSeq(sorted, at, Len(sorted))

\* The vector is returned in file order.
SortByName_Unsorted(ps) == ps

\* The sort is followed by the removal of entries that repeat a name.
RECURSIVE SortByName_Dedup(_)
SortByName_Dedup(ps) ==
    IF ps = <<>> THEN <<>>
    ELSE LET rest == SortByName_Dedup(SubSeq(ps, 1, Len(ps) - 1))
         IN  IF \E i \in 1..Len(rest) : rest[i].name = ps[Len(ps)].name
             THEN rest
             ELSE SortedInsert(rest, ps[Len(ps)])

\* profiles.sort_by(|a, b| a.name.cmp(&b.name)): a stable sort.
RECURSIVE SortByName(_)
SortByName(ps) ==
    IF ps = <<>> THEN <<>>
    ELSE SortedInsert(SortByName(SubSeq(ps, 1, Len(ps) - 1)), ps[Len(ps)])

Ok(v) == [tag |-> "Ok", val |-> v]

Err(e) == [tag |-> "Err", val |-> e]

InitialLocals == [profiles |-> <<>>, current_profile |-> None, current_attributes |-> EmptyMap]

RECURSIVE FoldLines(_, _)
FoldLines(st, lines) ==
    IF lines = <<>> THEN st ELSE FoldLines(ParseLine(st, Head(lines)), Tail(lines))

\* parse_aws_config as a function of its input.
ParseAwsConfig(lines) == Ok(SortByName(FinalPush(FoldLines(InitialLocals, lines))))

----------------------------------------------------------------------------
(* Inputs *)

\* A text as its characters.
Sp == <<" ">>

Header(inner) == LitProfile \o inner \o <<"]">>

\* The lines the inputs are built from: every class of line the parser
\* distinguishes, with the whitespace and repetition variants that matter.
LineSet ==
    { <<>>,                                             \* empty
      <<" ", "\t">>,                                    \* whitespace only
      <<"#", "k", "=", "v">>,                           \* comment
      Header(<<" ", "b">>),                             \* [profile b]
      Header(<<" ", "a">>),                             \* [profile a]
      Sp \o Header(<<"\t", " ", "a", " ">>) \o Sp,      \*  [profile<tab> a ]
      Header(<<" ", "a", "b">>),                        \* [profile ab]
      Header(<<" ", " ">>),                             \* [profile  ]
      Header(<<" ">>),                                  \* [profile ]
      Header(<<>>),                                     \* [profile]
      <<"k", " ", "=", " ", "v">>,                      \* k = v
      <<" ", "k", "=", "x", " ", "=", "y", " ">>,       \*  k=x =y
      <<"r", "\t", "=">>,                               \* r<tab>=
      <<"=", "v">>,                                     \* =v
      <<"n", "o", " ", "k", "v">> }                     \* no kv

RECURSIVE SeqsUpTo(_, _)
SeqsUpTo(S, n) ==
    IF n = 0 THEN {<<>>}
    ELSE LET shorter == SeqsUpTo(S, n - 1)
         IN  shorter \cup {Append(s, x) : s \in {t \in shorter : Len(t) = n - 1}, x \in S}

Inputs == SeqsUpTo(LineSet, MaxLines)

----------------------------------------------------------------------------
(* The parser as a state machine: one step per line of the for loop *)

MainIdle ==
    /\ m_pc = "idle"
    /\ args = [activate |-> None, deactivate |-> FALSE, new |-> None, current |-> FALSE]
    /\ home = TRUE
    /\ shell = <<>>
    /\ fs_dir = FALSE
    /\ fs_current = None
    /\ fs_config = None
    /\ config_read = FALSE
    /\ loaded = <<>>
    /\ ans = None
    /\ selected_profile = None
    /\ stdout = <<>>
    /\ stderr = <<>>
    /\ exit = None

Init ==
    /\ content \in Inputs
    /\ line_no = 1
    /\ profiles = <<>>
    /\ current_profile = None
    /\ current_attributes = EmptyMap
    /\ pc = "loop"
    /\ result = None
    /\ MainIdle

Locals == [profiles |-> profiles, current_profile |-> current_profile,
           current_attributes |-> current_attributes]

\* One iteration of `for line in content.lines()`.
LoopStep ==
    /\ pc = "loop"
    /\ line_no <= Len(content)
    /\ LET st == ParseLine(Locals, content[line_no])
       IN  /\ profiles' = st.profiles
           /\ current_profile' = st.current_profile
           /\ current_attributes' = st.current_attributes
    /\ line_no' = line_no + 1
    /\ UNCHANGED <<content, pc, result, main_vars>>

\* The lines are exhausted: the open section is pushed, the vector is sorted
\* and returned.
LoopEnd ==
    /\ pc = "loop"
    /\ line_no > Len(content)
    /\ profiles' = SortByName(FinalPush(Locals))
    /\ current_profile' = None
    /\ result' = Ok(profiles')
    /\ pc' = "done"
    /\ UNCHANGED <<content, line_no, current_attributes, main_vars>>

Next == LoopStep \/ LoopEnd

Spec == Init /\ [][Next]_vars

----------------------------------------------------------------------------
(* ui.rs: the display label and ProfileSelector::run *)

KeyAccountId == <<"s","s","o","_","a","c","c","o","u","n","t","_","i","d">>

KeyRegion == <<"r","e","g","i","o","n">>

KeyRoleName == <<"s","s","o","_","r","o","l","e","_","n","a","m","e">>

\* Profile::get_account_id, get_region, get_role_name: HashMap::get.
GetAttribute(p, key) ==
    IF key \in DOMAIN p.attributes THEN Some(p.attributes[key]) ELSE None

\* [String]::join(" ")
RECURSIVE JoinSpace(_)
JoinSpace(parts) ==
    IF parts = <<>> THEN <<>>
    ELSE IF Len(parts) = 1 THEN parts[1]
    ELSE parts[1] \o <<" ">> \o JoinSpace(Tail(parts))

\* format_profile_display
FormatProfileDisplay(p) ==
    LET account == GetAttribute(p, KeyAccountId)
        region  == GetAttribute(p, KeyRegion)
        role    == GetAttribute(p, KeyRoleName)
    IN  JoinSpace(<<p.name>>
            \o (IF IsSome(account) THEN <<(<<"(">> \o Unwrap(account) \o <<")">>)>> ELSE <<>>)
            \o (IF IsSome(region) THEN <<(<<"[">> \o Unwrap(region) \o <<"]">>)>> ELSE <<>>)
            \o (IF IsSome(role) THEN <<(<<"{">> \o Unwrap(role) \o <<"}">>)>> ELSE <<>>))

\* What Select::prompt can return for the options shown: one of the options,
\* a cancellation, an interrupt, or another failure of the widget.
PromptAnswers(ps) ==
    {Ok(FormatProfileDisplay(ps[i])) : i \in 1..Len(ps)}
        \cup {Err("OperationCanceled"), Err("OperationInterrupted"), Err("NotTTY")}

\* A run in which a cancellation is reported as a failure of the widget.
SelectorRun_CancelIsError(ps, answer) ==
    IF ps = <<>> THEN Ok(None)
    ELSE IF answer.tag = "Ok" THEN
        LET hits == {i \in 1..Len(ps) : FormatProfileDisplay(ps[i]) = answer.val}
        IN  IF hits = {} THEN Ok(None)
            ELSE Ok(Some(ps[CHOOSE i \in hits : \A j \in hits : i <= j].name))
    ELSE Err(<<"Selection failed: ", answer.val>>)

\* ProfileSelector::run, given what the prompt returned.
SelectorRun(ps, answer) ==
    IF ps = <<>> THEN Ok(None)
    ELSE IF answer.tag = "Ok" THEN
        LET hits == {i \in 1..Len(ps) : FormatProfileDisplay(ps[i]) = answer.val}
        IN  IF hits = {} THEN Ok(None)
            ELSE Ok(Some(ps[CHOOSE i \in hits : \A j \in hits : i <= j].name))
    ELSE IF answer.val \in {"OperationCanceled", "OperationInterrupted"} THEN Ok(None)
    ELSE Err(<<"Selection failed: ", answer.val>>)

----------------------------------------------------------------------------
(* main.rs                                                                 *)
(*                                                                         *)
(* The environment: the home directory may be unknown and ~/.aws/config    *)
(* may be missing, the two failures the code tests for; a file that exists *)
(* is readable text, and remove_file, create_dir_all and write succeed.    *)

\* print_shell_command: the text printed, as the pieces of the format string.
ShellCommand(sh, profile_name) ==
    IF IsSome(profile_name) THEN
        IF Contains(sh, <<"n","u">>) \/ Contains(sh, <<"n","u","s","h","e","l","l">>)
        THEN <<"$env.AWS_PROFILE = \"", Unwrap(profile_name), "\"">>
        ELSE IF Contains(sh, <<"f","i","s","h">>)
        THEN <<"set -gx AWS_PROFILE \"", Unwrap(profile_name), "\"">>
        ELSE <<"export AWS_PROFILE=\"", Unwrap(profile_name), "\"">>
    ELSE
        IF Contains(sh, <<"n","u">>) \/ Contains(sh, <<"n","u","s","h","e","l","l">>)
        THEN <<"hide-env AWS_PROFILE">>
        ELSE IF Contains(sh, <<"f","i","s","h">>)
        THEN <<"set -e AWS_PROFILE">>
        ELSE <<"unset AWS_PROFILE">>

\* How the process ends: main returns Ok(()), main returns Err (the runtime
\* reports it and the status is 1), or std::process::exit(1).
ReturnOk == Some([how |-> "return Ok", code |-> 0])

ReturnErr == Some([how |-> "return Err", code |-> 1])

ExitOne == Some([how |-> "process::exit", code |-> 1])

\* read_aws_config: the file must exist; its text is parsed.
ReadAwsConfig(config) ==
    IF config = None THEN Err("AWS config file not found")
    ELSE ParseAwsConfig(Unwrap(config))

\* Lines 45-46: the path of the current-profile file needs the home directory.
MainStart ==
    /\ m_pc = "start"
    /\ IF home THEN m_pc' = "dispatch" /\ exit' = exit
               ELSE m_pc' = "exited" /\ exit' = ReturnErr
    /\ UNCHANGED <<args, home, shell, fs_dir, fs_current, fs_config, config_read,
                   loaded, ans, selected_profile, stdout, stderr, parser_vars>>

\* A deactivation that removes the file in current-shell mode too.
Deactivate_AlwaysRemoves ==
    /\ m_pc = "dispatch"
    /\ args.deactivate
    /\ IF args.current
       THEN stdout' = Append(stdout, ShellCommand(shell, None)) /\ fs_current' = None
       ELSE IF IsSome(fs_current)
            THEN fs_current' = None /\ stdout' = Append(stdout, <<"AWS profile deactivated">>)
            ELSE fs_current' = fs_current
                 /\ stdout' = Append(stdout, <<"No active AWS profile to deactivate">>)
    /\ m_pc' = "exited"
    /\ exit' = ReturnOk
    /\ UNCHANGED <<args, home, shell, fs_dir, fs_config, config_read,
                   loaded, ans, selected_profile, stderr, parser_vars>>

\* Lines 49-62: --deactivate.
Deactivate ==
    /\ m_pc = "dispatch"
    /\ args.deactivate
    /\ IF args.current
       THEN stdout' = Append(stdout, ShellCommand(shell, None)) /\ fs_current' = fs_current
       ELSE IF IsSome(fs_current)
            THEN fs_current' = None /\ stdout' = Append(stdout, <<"AWS profile deactivated">>)
            ELSE fs_current' = fs_current
                 /\ stdout' = Append(stdout, <<"No active AWS profile to deactivate">>)
    /\ m_pc' = "exited"
    /\ exit' = ReturnOk
    /\ UNCHANGED <<args, home, shell, fs_dir, fs_config, config_read,
                   loaded, ans, selected_profile, stderr, parser_vars>>

\* The name is emitted in current-shell mode, and otherwise persisted:
\* create_dir_all on ~/.aws, then the file is written with the name.
\* (Lines 66-78 and 110-122.)
EmitOrPersist(profile_name) ==
    IF args.current
    THEN /\ stdout' = Append(stdout, ShellCommand(shell, Some(profile_name)))
         /\ UNCHANGED <<fs_dir, fs_current>>
    ELSE /\ fs_dir' = TRUE
         /\ fs_current' = Some(profile_name)
         /\ stdout' = Append(stdout, <<"AWS profile activated: ", profile_name>>)

\* A --new that loads the configuration and requires the name to be in it.
NewProfile_Validated ==
    /\ m_pc = "dispatch"
    /\ ~args.deactivate
    /\ IsSome(args.new)
    /\ config_read' = TRUE
    /\ LET got == ReadAwsConfig(fs_config)
       IN  IF got.tag = "Ok" /\ \E i \in 1..Len(got.val) : got.val[i].name = Unwrap(args.new)
           THEN EmitOrPersist(Unwrap(args.new)) /\ exit' = ReturnOk
           ELSE exit' = ExitOne /\ UNCHANGED <<fs_dir, fs_current, stdout>>
    /\ m_pc' = "exited"
    /\ UNCHANGED <<args, home, shell, fs_config,
                   loaded, ans, selected_profile, stderr, parser_vars>>

\* Lines 65-80: --new.
NewProfile ==
    /\ m_pc = "dispatch"
    /\ ~args.deactivate
    /\ IsSome(args.new)
    /\ EmitOrPersist(Unwrap(args.new))
    /\ m_pc' = "exited"
    /\ exit' = ReturnOk
    /\ UNCHANGED <<args, home, shell, fs_config, config_read,
                   loaded, ans, selected_profile, stderr, parser_vars>>

\* Lines 82-87: the configuration is loaded; a load failure is returned, and
\* no profile at all ends the process with status 1.
LoadProfiles ==
    /\ m_pc = "dispatch"
    /\ ~args.deactivate
    /\ args.new = None
    /\ config_read' = TRUE
    /\ LET got == ReadAwsConfig(fs_config)
       IN  IF got.tag = "Err"
           THEN /\ loaded' = loaded /\ stderr' = stderr
                /\ m_pc' = "exited" /\ exit' = ReturnErr
           ELSE IF got.val = <<>>
           THEN /\ loaded' = got.val
                /\ stderr' = Append(stderr, <<"No AWS profiles found in ~/.aws/config">>)
                /\ m_pc' = "exited" /\ exit' = ExitOne
           ELSE /\ loaded' = got.val /\ stderr' = stderr
                /\ m_pc' = "select" /\ exit' = exit
    /\ UNCHANGED <<args, home, shell, fs_dir, fs_current, fs_config,
                   ans, selected_profile, stdout, parser_vars>>

\* Lines 90-101: --activate takes the name if a loaded profile has it, and
\* otherwise lists the profiles and ends the process with status 1.
Activate ==
    /\ m_pc = "select"
    /\ IsSome(args.activate)
    /\ IF \E i \in 1..Len(loaded) : loaded[i].name = Unwrap(args.activate)
       THEN /\ selected_profile' = args.activate
            /\ stderr' = stderr
            /\ m_pc' = "finish" /\ exit' = exit
       ELSE /\ selected_profile' = selected_profile
            /\ stderr' = stderr
                  \o << <<"Profile '", Unwrap(args.activate), "' not found in AWS config">>,
                        <<"Available profiles:">> >>
                  \o [i \in 1..Len(loaded) |-> <<"  ", loaded[i].name>>]
            /\ m_pc' = "exited" /\ exit' = ExitOne
    /\ UNCHANGED <<args, home, shell, fs_dir, fs_current, fs_config, config_read,
                   loaded, ans, stdout, parser_vars>>

\* Lines 103-105: the interactive selector runs; its error is returned.
Interactive ==
    /\ m_pc = "select"
    /\ args.activate = None
    /\ \E answer \in PromptAnswers(loaded) :
          /\ ans' = Some(answer)
          /\ LET ran == SelectorRun(loaded, answer)
             IN  IF ran.tag = "Err"
                 THEN /\ selected_profile' = selected_profile
                      /\ m_pc' = "exited" /\ exit' = ReturnErr
                 ELSE /\ selected_profile' = ran.val
                      /\ m_pc' = "finish" /\ exit' = exit
    /\ UNCHANGED <<args, home, shell, fs_dir, fs_current, fs_config, config_read,
                   loaded, stdout, stderr, parser_vars>>

\* Lines 108-130: the selected name is emitted or persisted; no selection
\* prints a message and ends the process with status 1.
Finish ==
    /\ m_pc = "finish"
    /\ IF IsSome(selected_profile)
       THEN EmitOrPersist(Unwrap(selected_profile)) /\ exit' = ReturnOk
       ELSE /\ stdout' = Append(stdout, <<"No profile selected">>)
            /\ exit' = ExitOne
            /\ UNCHANGED <<fs_dir, fs_current>>
    /\ m_pc' = "exited"
    /\ UNCHANGED <<args, home, shell, fs_config, config_read,
                   loaded, ans, selected_profile, stderr, parser_vars>>

(* Inputs of main *)

ProfileNames == {<<"a">>, <<"z">>}

ArgSets ==
    [activate : {None} \cup {Some(n) : n \in ProfileNames},
     deactivate : BOOLEAN,
     new : {None} \cup {Some(n) : n \in ProfileNames},
     current : BOOLEAN]

BinPath == <<"/","b","i","n","/">>

Shells == {<<>>, BinPath \o <<"z","s","h">>, BinPath \o <<"f","i","s","h">>,
           BinPath \o <<"n","u">>}

\* Contents of ~/.aws/config: no profile; one profile; two profiles out of
\* order, one with the attributes the label shows; one name twice.
ConfigFiles ==
    { <<>>,
      << <<"r","e","g","i","o","n","=","x">> >>,
      << Header(<<" ", "a">>) >>,
      << Header(<<" ", "b">>),
         KeyAccountId \o <<" ","=", " ", "1", "2">>,
         KeyRegion \o <<"=","x">>,
         KeyRoleName \o <<"=","r","o">>,
         Header(<<" ", "a">>) >>,
      << Header(<<" ", "a">>),
         KeyRegion \o <<"=","x">>,
         Header(<<" ", "a">>) >> }

ParserIdle ==
    /\ content = <<>>
    /\ line_no = 1
    /\ profiles = <<>>
    /\ current_profile = None
    /\ current_attributes = EmptyMap
    /\ pc = "idle"
    /\ result = None

MainInit ==
    /\ ParserIdle
    /\ m_pc = "start"
    /\ args \in ArgSets
    /\ home \in BOOLEAN
    /\ shell \in Shells
    /\ fs_config \in {None} \cup {Some(c) : c \in ConfigFiles}
    /\ fs_current \in {None, Some(<<"b">>)}
    /\ fs_dir \in {d \in BOOLEAN : (IsSome(fs_config) \/ IsSome(fs_current)) => d}
    /\ config_read = FALSE
    /\ loaded = <<>>
    /\ ans = None
    /\ selected_profile = None
    /\ stdout = <<>>
    /\ stderr = <<>>
    /\ exit = None

MainNext ==
    \/ MainStart
    \/ Deactivate
    \/ NewProfile
    \/ LoadProfiles
    \/ Activate
    \/ Interactive
    \/ Finish

MainSpec == MainInit /\ [][MainNext]_vars

----------------------------------------------------------------------------
(* The grammar of the configuration file, stated on the text of a line,    *)
(* independently of the regular-expression matching above                  *)

\* l, trimmed, is `[profile`, whitespace, a name of characters other than
\* "]", and "]": the first "]" closes a bracket that holds at least two
\* characters, the first of them whitespace.
IsHeaderText(l) ==
    /\ StartsWith(l, LitProfile)
    /\ \E c \in 11..Len(l) :
          /\ l[c] = "]"
          /\ \A j \in 9..(c - 1) : l[j] # "]"
          /\ IsSpace(l[9])

HeaderNameOf(l) ==
    LET c == CHOOSE c \in 11..Len(l) : l[c] = "]" /\ \A j \in 9..(c - 1) : l[j] # "]"
    IN  Trim(SubSeq(l, 9, c - 1))

\* l, trimmed, has a first "=" with at least one character before it.
IsKeyValueText(l) ==
    \E e \in 2..Len(l) : l[e] = "=" /\ \A j \in 1..(e - 1) : l[j] # "="

FirstEq(l) == CHOOSE e \in 2..Len(l) : l[e] = "=" /\ \A j \in 1..(e - 1) : l[j] # "="

KeyOf(l) == Trim(SubSeq(l, 1, FirstEq(l) - 1))

ValueOf(l) == Trim(SubSeq(l, FirstEq(l) + 1, Len(l)))

\* The class of a line: the first rule that applies.
LineClass(raw) ==
    LET l == Trim(raw)
    IN  IF l = <<>> THEN "empty"
        ELSE IF Head(l) = "#" THEN "comment"
        ELSE IF IsHeaderText(l) THEN "header"
        ELSE IF IsKeyValueText(l) THEN "keyvalue"
        ELSE "malformed"

\* The positions of the section headers of the input.
HeaderIdx == {i \in 1..Len(content) : LineClass(content[i]) = "header"}

HeaderName(h) == HeaderNameOf(Trim(content[h]))

\* The position after the last line of the section that header h opens.
SectionEnd(h) ==
    LET later == {i \in HeaderIdx : i > h}
    IN  IF later = {} THEN Len(content) + 1
        ELSE CHOOSE i \in later : \A j \in later : i <= j

\* The positions of the key-value lines of the section that header h opens.
KeyValueIdx(h) ==
    {j \in (h + 1)..(SectionEnd(h) - 1) : LineClass(content[j]) = "keyvalue"}

LineKey(j) == KeyOf(Trim(content[j]))

LineValue(j) == ValueOf(Trim(content[j]))

\* The input without its line j.
RemoveLine(lines, j) == SubSeq(lines, 1, j - 1) \o SubSeq(lines, j + 1, Len(lines))

Returned == result.val

Done == pc = "done"

----------------------------------------------------------------------------
(* Claims about parse_aws_config *)

\* C1: the returned collection is sorted by name in ascending byte order:
\* every entry's name is less than or equal to the next entry's.
C1_SortedByName ==
    Done => \A i \in 1..(Len(Returned) - 1) :
                StrLeq(Returned[i].name, Returned[i + 1].name)

\* C1 witness: a finished parse of an input whose headers are in descending
\* order of name.
C1_Witness ==
    /\ Done
    /\ \E h1, h2 \in HeaderIdx : h1 < h2 /\ StrLess(HeaderName(h2), HeaderName(h1))

\* C2: the number of returned entries equals the number of header lines
\* (repeated names and the section open at the end included; none gives none).
C2_LengthIsHeaderCount ==
    Done => Len(Returned) = Cardinality(HeaderIdx)

\* C2 witness: a finished parse of an input with two headers of the same name,
\* the second one still open at the end of the input.
C2_Witness ==
    /\ Done
    /\ \E h1, h2 \in HeaderIdx :
          h1 < h2 /\ HeaderName(h1) = HeaderName(h2) /\ SectionEnd(h2) = Len(content) + 1

\* The ways to give every returned entry a header of its own.
Pairings ==
    {f \in [1..Len(Returned) -> HeaderIdx] :
        \A i, j \in 1..Len(Returned) : i # j => f[i] # f[j]}

\* C3: the returned profiles can be paired with the headers, each with a
\* header of its own that carries its name, so that every attribute of a
\* profile comes from a key-value line of that header's section (between the
\* header and the next header or the end of the input): nothing comes from
\* another section or from before the first header.
C3_AttributesFromOwnSection ==
    Done => \E f \in Pairings :
                \A i \in 1..Len(Returned) :
                    /\ HeaderName(f[i]) = Returned[i].name
                    /\ \A k \in DOMAIN Returned[i].attributes :
                          \E j \in KeyValueIdx(f[i]) :
                              /\ LineKey(j) = k
                              /\ LineValue(j) = Returned[i].attributes[k]

\* C3 witness: a finished parse of an input in which a section with a
\* key-value line is followed by a section of another name without that key.
C3_Witness ==
    /\ Done
    /\ \E h1, h2 \in HeaderIdx :
          /\ h2 = SectionEnd(h1)
          /\ HeaderName(h1) # HeaderName(h2)
          /\ \E j \in KeyValueIdx(h1) : \A j2 \in KeyValueIdx(h2) : LineKey(j2) # LineKey(j)

\* C4: the returned profiles can be paired with the headers so that each maps
\* exactly the keys of its section's key-value lines, each key to the value
\* of the last line of the section with that key.
C4_LastValueWins ==
    Done => \E f \in Pairings :
                \A i \in 1..Len(Returned) :
                    /\ HeaderName(f[i]) = Returned[i].name
                    /\ DOMAIN Returned[i].attributes = {LineKey(j) : j \in KeyValueIdx(f[i])}
                    /\ \A j \in KeyValueIdx(f[i]) :
                          (\A j2 \in KeyValueIdx(f[i]) : LineKey(j2) = LineKey(j) => j2 <= j)
                              => Returned[i].attributes[LineKey(j)] = LineValue(j)

\* C4 witness: a finished parse of an input with a section in which one key
\* occurs in two lines with different values.
C4_Witness ==
    /\ Done
    /\ \E h \in HeaderIdx : \E j1, j2 \in KeyValueIdx(h) :
          j1 < j2 /\ LineKey(j1) = LineKey(j2) /\ LineValue(j1) # LineValue(j2)

\* C5: the parser returns Ok for every input, and a malformed line has no
\* effect: the result is that of the input with the line removed.
C5_MalformedLineSkipped ==
    Done => /\ result.tag = "Ok"
            /\ \A j \in 1..Len(content) :
                  LineClass(content[j]) = "malformed"
                      => result = ParseAwsConfig(RemoveLine(content, j))

\* C5 witness: a finished parse of an input with a malformed line inside a
\* section that has a key-value line after it.
C5_Witness ==
    /\ Done
    /\ \E h \in HeaderIdx : \E j \in (h + 1)..(SectionEnd(h) - 1) :
          /\ LineClass(content[j]) = "malformed"
          /\ \E j2 \in KeyValueIdx(h) : j < j2

\* C6 as stated: no two returned entries have the same name.
C6_Original_NamesUnique ==
    Done => \A i, j \in 1..Len(Returned) : i # j => Returned[i].name # Returned[j].name

\* C6 as amended: names may repeat; a name is returned once for every header
\* that carries it.
C6_OneEntryPerHeader ==
    Done => \A h \in HeaderIdx :
                Cardinality({i \in 1..Len(Returned) : Returned[i].name = HeaderName(h)})
                    = Cardinality({g \in HeaderIdx : HeaderName(g) = HeaderName(h)})

\* C6 witness: a finished parse that returned two entries of one name.
C6_Witness ==
    /\ Done
    /\ \E i, j \in 1..Len(Returned) : i # j /\ Returned[i].name = Returned[j].name

\* C7 as stated: no returned entry has the empty string as its name.
C7_NamesNonEmpty ==
    Done => \A i \in 1..Len(Returned) : Returned[i].name # <<>>

----------------------------------------------------------------------------
(* Claims about main and ProfileSelector::run *)

Exited == m_pc = "exited"

\* The user cancelled the prompt or interrupted it.
Cancelled(a) == a \in {Some(Err("OperationCanceled")), Some(Err("OperationInterrupted"))}

\* No printed line holds a profile name: every line is a single literal.
NoNameEmitted(out) == \A i \in 1..Len(out) : Len(out[i]) = 1

C10_CurrentModeLeavesFile ==
    [][/\ args.current => (fs_current' = fs_current /\ fs_dir' = fs_dir)
       /\ fs_current' # fs_current =>
              /\ ~args.current
              /\ IF fs_current' = None
                 THEN args.deactivate
                 ELSE /\ ~args.deactivate
                      /\ \/ fs_current' = args.new
                         \/ /\ args.new = None
                            /\ fs_current' = selected_profile'
                            /\ \E i \in 1..Len(loaded) :
                                  loaded[i].name = Unwrap(fs_current')]_vars

\* C10 witness: --current with --deactivate has ended and the file that
\* existed is still there.
C10_Witness ==
    /\ Exited
    /\ args.current
    /\ exit = ReturnOk
    /\ IsSome(fs_current)
    /\ args.deactivate

====
